---- MODULE Spec2Model ----
(***************************************************************************)
(* A model of the beziers drawing tool: the BezierPath click protocol      *)
(* (stroke / undo / clear), the per-curve oriented bounding quad           *)
(* (QuadCurve::optimal_bb), the mesh projection (vertices) and the         *)
(* Strokes session driver (new / update_buffers / mouse handlers).         *)
(*                                                                         *)
(* f32 values are modelled as pairs <<n, d>>:                              *)
(*   d > 0   the finite value n/d, kept in lowest terms;                   *)
(*   <<1,0>> +infinity, <<-1,0>> -infinity, <<0,0>> NaN.                   *)
(* IEEE special values are propagated as the hardware does; rounding of    *)
(* finite values and the sign of zero are not modelled.                    *)
(***************************************************************************)
EXTENDS Integers, Sequences, FiniteSets, TLC

\* ------------------------------------------------------------- bounds
\* Largest number of committed curves kept in a path of the model.
MaxCurves == 2
\* The argument max_curves_num given to Strokes::new in the model.
MaxCurvesNum == 3
\* Largest number of curves fed to the loop of BezierPath::vertices.
MaxLoopCurves == 16390

\* ------------------------------------------------------ program constants
U16Modulus == 65536
SizeOfVertex == 36
SizeOfU16 == 2
DefaultPathWidth == 10

\* ------------------------------------------------------------ f32 model
NaN == <<0, 0>>
PosInf == <<1, 0>>
NegInf == <<-1, 0>>

F(n) == <<n, 1>>

IsNaN(x) == x = NaN
IsInf(x) == x = PosInf \/ x = NegInf
IsFinite(x) == x[2] > 0

Abs(n) == IF n < 0 THEN -n ELSE n
Sgn(n) == IF n > 0 THEN 1 ELSE IF n < 0 THEN -1 ELSE 0

RECURSIVE GCD(_, _)
GCD(m, n) == IF n = 0 THEN m ELSE GCD(n, m % n)

\* the finite value n/d (d > 0) in lowest terms
Norm(n, d) ==
    LET g == GCD(Abs(n), d)
    IN  IF n = 0 THEN <<0, 1>> ELSE <<Sgn(n) * (Abs(n) \div g), d \div g>>

FNeg(x) == <<-x[1], x[2]>>

FAdd(x, y) ==
    IF IsNaN(x) \/ IsNaN(y) THEN NaN
    ELSE IF IsInf(x) THEN (IF IsInf(y) /\ y # x THEN NaN ELSE x)
    ELSE IF IsInf(y) THEN y
    ELSE Norm(x[1] * y[2] + y[1] * x[2], x[2] * y[2])

FSub(x, y) == FAdd(x, FNeg(y))

FMul(x, y) ==
    IF IsNaN(x) \/ IsNaN(y) THEN NaN
    ELSE IF IsInf(x) \/ IsInf(y)
         THEN (IF x[1] = 0 \/ y[1] = 0 THEN NaN ELSE <<Sgn(x[1]) * Sgn(y[1]), 0>>)
    ELSE Norm(x[1] * y[1], x[2] * y[2])

FDiv(x, y) ==
    IF IsNaN(x) \/ IsNaN(y) THEN NaN
    ELSE IF IsInf(x)
         THEN (IF IsInf(y) THEN NaN
               ELSE <<x[1] * (IF y[1] < 0 THEN -1 ELSE 1), 0>>)
    ELSE IF IsInf(y) THEN <<0, 1>>
    ELSE IF y[1] = 0
         THEN (IF x[1] = 0 THEN NaN ELSE <<Sgn(x[1]), 0>>)
    ELSE Norm(x[1] * y[2] * Sgn(y[1]), x[2] * Abs(y[1]))

\* x < y; false when either side is NaN
FLt(x, y) ==
    IF IsNaN(x) \/ IsNaN(y) THEN FALSE
    ELSE IF x = y THEN FALSE
    ELSE IF x = NegInf \/ y = PosInf THEN TRUE
    ELSE IF x = PosInf \/ y = NegInf THEN FALSE
    ELSE x[1] * y[2] < y[1] * x[2]

FLe(x, y) == FLt(x, y) \/ (~IsNaN(x) /\ x = y)

\* f32::min / f32::max: a NaN operand is ignored
FMin(x, y) == IF IsNaN(x) THEN y ELSE IF IsNaN(y) THEN x ELSE IF FLt(y, x) THEN y ELSE x
FMax(x, y) == IF IsNaN(x) THEN y ELSE IF IsNaN(y) THEN x ELSE IF FLt(x, y) THEN y ELSE x

\* integer square root of a perfect square
ISqrt(n) == CHOOSE r \in 0..n : r * r = n

\* f32::sqrt on the values the model meets: squares of rationals
FSqrt(x) ==
    IF IsNaN(x) \/ x = NegInf THEN NaN
    ELSE IF x = PosInf THEN PosInf
    ELSE IF x[1] < 0 THEN NaN
    ELSE Norm(ISqrt(x[1]), ISqrt(x[2]))

\* ----------------------------------------------------------- glam Vec2
vec2(x, y) == [x |-> x, y |-> y]

VAdd(u, v) == vec2(FAdd(u.x, v.x), FAdd(u.y, v.y))
VSub(u, v) == vec2(FSub(u.x, v.x), FSub(u.y, v.y))
VMul(u, v) == vec2(FMul(u.x, v.x), FMul(u.y, v.y))
VDiv(u, v) == vec2(FDiv(u.x, v.x), FDiv(u.y, v.y))
VScale(s, v) == vec2(FMul(s, v.x), FMul(s, v.y))
VMin(u, v) == vec2(FMin(u.x, v.x), FMin(u.y, v.y))
VMax(u, v) == vec2(FMax(u.x, v.x), FMax(u.y, v.y))
dot(u, v) == FAdd(FMul(u.x, v.x), FMul(u.y, v.y))
length(v) == FSqrt(dot(v, v))
\* Vec2::normalize: the vector times the reciprocal of its length
normalize(v) == VScale(FDiv(F(1), length(v)), v)

VFinite(v) == IsFinite(v.x) /\ IsFinite(v.y)

\* ---------------------------------------------------------- geometry.rs
clamp(a) ==
    IF FLt(a, F(0)) THEN F(0)
    ELSE IF FLt(F(1), a) THEN F(1)
    ELSE a

bounding_box_frame(mi, ma, width) ==
    LET frame == vec2(width, width)
    IN  <<VSub(mi, frame), VAdd(ma, frame)>>

wedge(v1, v2) == FSub(FMul(v1.x, v2.y), FMul(v1.y, v2.x))

rot(point, cosb, sinb) ==
    vec2(FSub(FMul(cosb, point.x), FMul(sinb, point.y)),
         FAdd(FMul(sinb, point.x), FMul(cosb, point.y)))

QuadCurve(a, control, c) == [a |-> a, control |-> control, c |-> c]

\* optimal_bb is written as a chain of operators, one per group of `let`s of the
\* source, each passing on the values the later lines read.
Ox == vec2(F(1), F(0))

\* b, d and the returned tuple (mi_rotated, b, ma_rotated, d)
BBResult(mi_rotated, ma_rotated, offset) ==
    <<mi_rotated, VAdd(ma_rotated, offset), ma_rotated, VSub(mi_rotated, offset)>>

\* offset = ndir.dot(mi_rotated - ma_rotated) * ndir
BBOffset(mi_rotated, ma_rotated, ndir) ==
    BBResult(mi_rotated, ma_rotated,
             VScale(dot(ndir, VSub(mi_rotated, ma_rotated)), ndir))

\* "now align back with bezier": ma_rotated, mi_rotated
BBBack(p0, fr, ndir, cosb, sinb) ==
    BBOffset(VAdd(p0, rot(VSub(fr[1], p0), cosb, FNeg(sinb))),
             VAdd(p0, rot(VSub(fr[2], p0), cosb, FNeg(sinb))),
             ndir)

\* q = s * s * p0 + 2.0 * s * t * p1 + t * t * p2
BezierAtTS(p0, p1, p2, t, s) ==
    VAdd(VAdd(VMul(VMul(s, s), p0),
              VMul(VMul(VScale(F(2), s), t), p1)),
         VMul(VMul(t, t), p2))

\* s = vec2(1., 1.) - t
BezierAtT(p0, p1, p2, t) == BezierAtTS(p0, p1, p2, t, VSub(vec2(F(1), F(1)), t))

\* t = vec2(clamp(t.x), clamp(t.y))
ClampT(p0, p1, p2, t) == BezierAtT(p0, p1, p2, vec2(clamp(t.x), clamp(t.y)))

\* t = (p0 - p1) / (p0 - 2. * p1 + p2), and the point q of the curve there
Extremum(p0, p1, p2) ==
    ClampT(p0, p1, p2, VDiv(VSub(p0, p1), VAdd(VSub(p0, VScale(F(2), p1)), p2)))

\* the condition of the `if`: the control point lies outside the box of p0, p2
Outside(p1, mi, ma) ==
    \/ FLt(p1.x, mi.x) \/ FLt(ma.x, p1.x)
    \/ FLt(p1.y, mi.y) \/ FLt(ma.y, p1.y)

\* mi, ma after the `if`, then bounding_box_frame(mi, ma, width)
BBBox(p0, mi, ma, outside, q, width, ndir, cosb, sinb) ==
    BBBack(p0,
           bounding_box_frame(IF outside THEN VMin(mi, q) ELSE mi,
                              IF outside THEN VMax(ma, q) ELSE ma,
                              width),
           ndir, cosb, sinb)

\* mi = p0.min(p2), ma = p0.max(p2), and the `if`
BBExtent(p0, p1, p2, width, ndir, cosb, sinb) ==
    BBBox(p0, VMin(p0, p2), VMax(p0, p2),
          Outside(p1, VMin(p0, p2), VMax(p0, p2)),
          Extremum(p0, p1, p2), width, ndir, cosb, sinb)

\* "align with Ox axis": p0, p1, p2
BBAlign(self, width, ndir, cosb, sinb) ==
    BBExtent(self.a,
             VAdd(self.a, rot(VSub(self.control, self.a), cosb, sinb)),
             VAdd(self.a, vec2(length(VSub(self.c, self.a)), F(0))),
             width, ndir, cosb, sinb)

\* sinb = wedge(ndir, ox), cosb = (c - a).normalize().dot(ox)
BBAngle(self, width, ndir) ==
    BBAlign(self, width, ndir, dot(ndir, Ox), wedge(ndir, Ox))

\* ndir = (c - a).normalize(); returns the corners (mi_rotated, b, ma_rotated, d)
optimal_bb(self, width) == BBAngle(self, width, normalize(VSub(self.c, self.a)))

Vertex(position, curve, thickness) ==
    [position |-> position, curve |-> curve, thickness |-> thickness]

\* the local index list of one curve's two triangles
QuadIndices == <<0, 1, 2, 0, 2, 3>>

\* the four Vertex records of the corners a, b, c, d
QuadVertices(self, width, bb) ==
    [vertices |-> <<Vertex(bb[1], self, width), Vertex(bb[2], self, width),
                    Vertex(bb[3], self, width), Vertex(bb[4], self, width)>>,
     indices |-> QuadIndices]

QuadCurve_vertices(self, width) == QuadVertices(self, width, optimal_bb(self, width))

\* `vertices.len() as u16`: the vertex count truncated to 16 bits
indices_size(vlen) == vlen % U16Modulus

\* the body of the loop over ids: indices_size + i for each local index i
\* (indices_size is a multiple of 4 below 65536, so the u16 sum never wraps)
OffsetIndices(vlen, ids) == [j \in 1..Len(ids) |-> indices_size(vlen) + ids[j]]

\* one iteration of the loop of BezierPath::vertices, (vrts, ids) being
\* curve.vertices(width)
VerticesStep(acc, r) ==
    [vertices |-> acc.vertices \o r.vertices,
     indices |-> acc.indices \o OffsetIndices(Len(acc.vertices), r.indices)]

RECURSIVE VerticesLoop(_, _, _, _)
VerticesLoop(curves, width, i, acc) ==
    IF i > Len(curves) THEN acc
    ELSE VerticesLoop(curves, width, i + 1,
                      VerticesStep(acc, QuadCurve_vertices(curves[i], width)))

\* Option<Vec2>: None is <<>>, Some(p) is <<p>>
None == <<>>
Some(p) == <<p>>

BezierPath_default == [last |-> None, control |-> None, curves |-> <<>>]

\* clear that forgets the pending control point
BezierPath_clear_keeps_control(self) ==
    [last |-> None, control |-> self.control, curves |-> <<>>]

BezierPath_clear(self) == [last |-> None, control |-> None, curves |-> <<>>]

\* stroke that commits the curve but keeps the control point pending
BezierPath_stroke_keeps_control(self, point) ==
    IF self.last # None /\ self.control # None
    THEN [last |-> Some(point),
          control |-> self.control,
          curves |-> Append(self.curves,
                            QuadCurve(self.last[1], self.control[1], point))]
    ELSE IF self.last = None THEN [self EXCEPT !.last = Some(point)]
    ELSE IF self.control = None THEN [self EXCEPT !.control = Some(point)]
    ELSE self

BezierPath_stroke(self, point) ==
    IF self.last # None /\ self.control # None
    THEN [last |-> Some(point),
          control |-> None,
          curves |-> Append(self.curves,
                            QuadCurve(self.last[1], self.control[1], point))]
    ELSE IF self.last = None THEN [self EXCEPT !.last = Some(point)]
    ELSE IF self.control = None THEN [self EXCEPT !.control = Some(point)]
    ELSE self

\* undo that pops the curve and restores last, but drops the control point
BezierPath_undo_drops_control(self) ==
    IF Len(self.curves) > 0
    THEN LET curve == self.curves[Len(self.curves)]
         IN  [last |-> Some(curve.a),
              control |-> None,
              curves |-> SubSeq(self.curves, 1, Len(self.curves) - 1)]
    ELSE self

\* undo that restores last from the popped curve's end point instead of its start
BezierPath_undo_restores_end(self) ==
    IF Len(self.curves) > 0
    THEN LET curve == self.curves[Len(self.curves)]
         IN  [last |-> Some(curve.c),
              control |-> Some(curve.control),
              curves |-> SubSeq(self.curves, 1, Len(self.curves) - 1)]
    ELSE self

\* undo that leaves the committed curve in place
BezierPath_undo_keeps_curve(self) ==
    IF Len(self.curves) > 0
    THEN LET curve == self.curves[Len(self.curves)]
         IN  [last |-> Some(curve.a),
              control |-> Some(curve.control),
              curves |-> self.curves]
    ELSE self

BezierPath_undo(self) ==
    IF Len(self.curves) > 0
    THEN LET curve == self.curves[Len(self.curves)]
         IN  [last |-> Some(curve.a),
              control |-> Some(curve.control),
              curves |-> SubSeq(self.curves, 1, Len(self.curves) - 1)]
    ELSE self

BezierPath_vertices(self, width) ==
    VerticesLoop(self.curves, width, 1, [vertices |-> <<>>, indices |-> <<>>])

\* ------------------------------------------------------------ the state
\* The pointer positions of the model: pairwise at integral distance (3, 4, 5),
\* so that every chord length is a rational.
Points == {vec2(F(0), F(0)), vec2(F(4), F(0)), vec2(F(0), F(3))}

VARIABLES
    path,                \* Strokes.path: BezierPath {last, control, curves}
    vertices,            \* Strokes.vertices: the vertex data last uploaded
    indices,             \* Strokes.indices: the index data last uploaded
    max_curves_num,      \* the argument of Strokes::new
    vertex_buffer_size,  \* byte size of Strokes.vertex_buffer
    index_buffer_size,   \* byte size of Strokes.index_buffer
    clicks,              \* the points passed to stroke since the path was empty
    pure,                \* no undo has been called since the path was empty
    loop_k,              \* BezierPath::vertices: curves consumed by the loop
    loop_vlen,           \* BezierPath::vertices: vertices.len()
    loop_ilen,           \* BezierPath::vertices: indices.len()
    loop_ids             \* BezierPath::vertices: the indices pushed last

vars == <<path, vertices, indices, max_curves_num, vertex_buffer_size,
          index_buffer_size, clicks, pure, loop_k, loop_vlen, loop_ilen, loop_ids>>

stateStrokes == <<vertices, indices, max_curves_num, vertex_buffer_size, index_buffer_size>>
stateLoop == <<loop_k, loop_vlen, loop_ilen, loop_ids>>

\* Strokes.path_width, set once by Strokes::new
path_width == F(DefaultPathWidth)

\* Buffer::stream sizes requested by Strokes::new
VertexBufferBytes(n) == n * SizeOfVertex
IndexBufferBytes(n) == n * SizeOfU16

\* Strokes::new, update_buffers included (the path is empty)
Init ==
    /\ path = BezierPath_default
    /\ max_curves_num = MaxCurvesNum
    /\ vertex_buffer_size = VertexBufferBytes(max_curves_num)
    /\ index_buffer_size = IndexBufferBytes(max_curves_num)
    /\ vertices = BezierPath_vertices(path, path_width).vertices
    /\ indices = BezierPath_vertices(path, path_width).indices
    /\ clicks = <<>>
    /\ pure = TRUE
    /\ loop_k = 0
    /\ loop_vlen = 0
    /\ loop_ilen = 0
    /\ loop_ids = <<>>

\* the model follows a path while it holds at most MaxCurves committed curves
CanStroke(p) ==
    ~(p.last # None /\ p.control # None /\ Len(p.curves) >= MaxCurves)

\* --------------------------------------------- Strokes (bstroke.rs) events
\* self.vertices = vertices; self.indices = indices; and the two uploads
StoreBuffers(vi) ==
    /\ vertices' = vi.vertices
    /\ indices' = vi.indices

\* Strokes::update_buffers, the path being p
update_buffers(p) == StoreBuffers(BezierPath_vertices(p, path_width))

\* Strokes::mouse_button_down_event: stroke, then update_buffers
MouseButtonDown(point) ==
    /\ CanStroke(path)
    /\ path' = BezierPath_stroke(path, point)
    /\ update_buffers(path')
    /\ clicks' = Append(clicks, point)
    /\ UNCHANGED <<max_curves_num, vertex_buffer_size, index_buffer_size, pure>>
    /\ UNCHANGED stateLoop

\* Strokes::mouse_motion_event: preview stroke while a control point is pending,
\* update_buffers on the path with the preview (p1), then undo of the preview.
\* The event is one atomic step; the path it leaves is written first.
MouseMotion(point) ==
    /\ LET to_undo == path.control # None
           p1 == IF to_undo THEN BezierPath_stroke(path, point) ELSE path
       IN  /\ path' = IF to_undo THEN BezierPath_undo(p1) ELSE p1
           /\ update_buffers(p1)
    /\ UNCHANGED <<max_curves_num, vertex_buffer_size, index_buffer_size, clicks, pure>>
    /\ UNCHANGED stateLoop

Next ==
    \/ \E point \in Points : MouseButtonDown(point)
    \/ \E point \in Points : MouseMotion(point)

Spec == Init /\ [][Next]_vars

\* ------------------------------------------ BezierPath (geometry.rs) calls
Stroke(point) ==
    /\ CanStroke(path)
    /\ path' = BezierPath_stroke(path, point)
    /\ clicks' = Append(clicks, point)
    /\ UNCHANGED pure
    /\ UNCHANGED stateStrokes
    /\ UNCHANGED stateLoop

Undo ==
    /\ path' = BezierPath_undo(path)
    /\ pure' = FALSE
    /\ clicks' = <<>>
    /\ UNCHANGED stateStrokes
    /\ UNCHANGED stateLoop

Clear ==
    /\ path' = BezierPath_clear(path)
    /\ pure' = TRUE
    /\ clicks' = <<>>
    /\ UNCHANGED stateStrokes
    /\ UNCHANGED stateLoop

NextPath ==
    \/ \E point \in Points : Stroke(point)
    \/ Undo
    \/ Clear

SpecPath == Init /\ [][NextPath]_vars

\* ------------------------------- the loop of BezierPath::vertices, by step
\* The curves a long path may hold; the loop reads of each only the sizes of
\* curve.vertices(width) and its local indices.
LoopCurves == {QuadCurve(a, vec2(F(0), F(3)), vec2(F(4), F(0))) : a \in Points}

\* one iteration on a path of MaxLoopCurves curves: vertices and indices are
\* followed by their lengths, and the six indices pushed are kept
LoopIteration(r) ==
    /\ loop_k' = loop_k + 1
    /\ loop_ids' = OffsetIndices(loop_vlen, r.indices)
    /\ loop_vlen' = loop_vlen + Len(r.vertices)
    /\ loop_ilen' = loop_ilen + Len(r.indices)

LoopStep ==
    /\ loop_k < MaxLoopCurves
    /\ \E curve \in LoopCurves : LoopIteration(QuadCurve_vertices(curve, path_width))
    /\ UNCHANGED <<path, clicks, pure>>
    /\ UNCHANGED stateStrokes

NextVertices == LoopStep

SpecVertices == Init /\ [][NextVertices]_vars

\* ================================================================ claims
HaveControl(p) == p.last # None /\ p.control # None

\* C1 (as stated): in every reachable state and for every point, stroke(p)
\* followed by undo() gives back last, control and curves, whether the click
\* recorded a pending point or committed a curve.
C1_StrokeUndoAlwaysInverse ==
    \A point \in Points : BezierPath_undo(BezierPath_stroke(path, point)) = path

\* C1 (amended): stroke(p) followed by undo() gives back last, control and
\* curves exactly when the click commits a curve (last and control both
\* pending); a click that only records a pending point is not undone.
C1_StrokeUndoInverseWhenCommitting ==
    \A point \in Points :
        (BezierPath_undo(BezierPath_stroke(path, point)) = path) <=> HaveControl(path)

C1_Witness ==
    /\ HaveControl(path)
    /\ Len(path.curves) >= 1
    /\ Len(clicks) >= 4

\* C2: stroke follows the three-phase click protocol in every reachable state,
\* and k clicks P0..P(k-1) from the empty path with no undo give
\* floor((k-1)/2) curves (none for k <= 2), the i-th being
\* {a: P(2i), control: P(2i+1), c: P(2i+2)}.
C2_ClickProtocol ==
    /\ \A point \in Points :
          BezierPath_stroke(path, point) =
             IF path.last = None
             THEN [last |-> Some(point), control |-> path.control, curves |-> path.curves]
             ELSE IF path.control = None
             THEN [last |-> path.last, control |-> Some(point), curves |-> path.curves]
             ELSE [last |-> Some(point),
                   control |-> None,
                   curves |-> path.curves \o
                       <<[a |-> path.last[1], control |-> path.control[1], c |-> point]>>]
    /\ pure =>
          /\ Len(path.curves) = (IF Len(clicks) <= 2 THEN 0 ELSE (Len(clicks) - 1) \div 2)
          /\ \A j \in 1..Len(path.curves) :
                path.curves[j] =
                    [a |-> clicks[2 * j - 1], control |-> clicks[2 * j], c |-> clicks[2 * j + 1]]

C2_Witness ==
    /\ pure
    /\ Len(clicks) = 5
    /\ Len(path.curves) = 2
    /\ path.control = None

\* C3: undo removes exactly the last curve when there is one, setting last and
\* control to that curve's a and control and keeping the earlier curves in
\* order; with no curve it changes nothing, whatever is pending.
C3_UndoPopsLast ==
    LET n == Len(path.curves)
        after == BezierPath_undo(path)
    IN  IF n > 0
        THEN /\ Len(after.curves) = n - 1
             /\ \A i \in 1..(n - 1) : after.curves[i] = path.curves[i]
             /\ after.last = <<path.curves[n].a>>
             /\ after.control = <<path.curves[n].control>>
        ELSE after = path

C3_Witness ==
    /\ ~pure
    /\ Len(path.curves) = 1
    /\ HaveControl(path)

\* C4: a pointer-move event never changes the path: after mouse_motion_event
\* last, control and curves are what they were; the uploaded geometry holds one
\* provisional curve more than the path exactly when a control point was
\* pending, and otherwise is the geometry of the unchanged path.
\* (Written as Q \/ ~A for "A => Q", A being the step of the event.)
C4_PreviewLeavesPath ==
    [][\/ /\ path' = path
          /\ Len(vertices') =
                4 * (Len(path.curves) + (IF path.control # None THEN 1 ELSE 0))
          /\ path.control = None =>
                vertices' = BezierPath_vertices(path, path_width).vertices
       \/ ~(\E point \in Points : MouseMotion(point))]_vars

C4_Witness ==
    /\ path.control # None
    /\ Len(path.curves) = 1
    /\ Len(vertices) = 4 * (Len(path.curves) + 1)

\* C5: after the loop of BezierPath::vertices has consumed k curves there are
\* 4k vertices and 6k indices, and the six indices of curve k-1 are
\* 4(k-1) + 0, 1, 2, 0, 2, 3.
C5_IndexLayout ==
    loop_k > 0 =>
        /\ loop_vlen = 4 * loop_k
        /\ loop_ilen = 6 * loop_k
        /\ loop_ids = [j \in 1..6 |-> 4 * (loop_k - 1) + QuadIndices[j]]

\* C6: whenever the uploaded geometry holds at most max_curves_num curves, its
\* vertex data and index data fit the byte sizes of the buffers of Strokes::new.
C6_BuffersFit ==
    (Len(vertices) \div 4 <= max_curves_num) =>
        /\ Len(vertices) * SizeOfVertex <= vertex_buffer_size
        /\ Len(indices) * SizeOfU16 <= index_buffer_size

\* C7: every committed curve with a = c gets four finite vertex positions.
C7_DegenerateFinite ==
    \A i \in 1..Len(path.curves) :
        path.curves[i].a = path.curves[i].c =>
            \A j \in 1..4 :
                VFinite(QuadCurve_vertices(path.curves[i], path_width).vertices[j].position)

\* the point of the curve at parameter t
CurveAt(curve, t) ==
    LET s == FSub(F(1), t)
    IN  VAdd(VAdd(VScale(FMul(s, s), curve.a),
                  VScale(FMul(F(2), FMul(s, t)), curve.control)),
             VScale(FMul(t, t), curve.c))

SampleT == {<<0, 1>>, <<1, 4>>, <<1, 2>>, <<3, 4>>, <<1, 1>>}

\* unit vectors with rational coordinates, and the zero vector
UnitProbes ==
    {vec2(F(0), F(0)),
     vec2(F(1), F(0)), vec2(F(-1), F(0)), vec2(F(0), F(1)), vec2(F(0), F(-1)),
     vec2(<<3, 5>>, <<4, 5>>), vec2(<<-3, 5>>, <<4, 5>>),
     vec2(<<3, 5>>, <<-4, 5>>), vec2(<<-3, 5>>, <<-4, 5>>),
     vec2(<<4, 5>>, <<3, 5>>), vec2(<<-4, 5>>, <<3, 5>>),
     vec2(<<4, 5>>, <<-3, 5>>), vec2(<<-4, 5>>, <<-3, 5>>)}

\* the point pt lies in the convex quad with corners bb[1..4]
InQuad(pt, bb) ==
    LET side(i) == wedge(VSub(bb[(i % 4) + 1], bb[i]), VSub(pt, bb[i]))
    IN  \/ \A i \in 1..4 : FLe(F(0), side(i))
        \/ \A i \in 1..4 : FLe(side(i), F(0))

\* the corners form a rectangle with two sides along the chord c - a
ChordRectangle(curve, bb) ==
    LET chord == VSub(curve.c, curve.a)
    IN  /\ \A j \in 1..4 : VFinite(bb[j])
        /\ VAdd(bb[1], bb[3]) = VAdd(bb[2], bb[4])
        /\ dot(VSub(bb[2], bb[1]), chord) = F(0)
        /\ wedge(VSub(bb[3], bb[2]), chord) = F(0)

ContainsInflated(curve, width) ==
    LET bb == optimal_bb(curve, width)
    IN  /\ ChordRectangle(curve, bb)
        /\ \A t \in SampleT : \A u \in UnitProbes :
              InQuad(VAdd(CurveAt(curve, t), VScale(width, u)), bb)

Widths == {F(0), F(1), path_width}

\* C8: for every committed curve and every width >= 0 the corners of
\* optimal_bb(width) form a rectangle along the chord which holds every point
\* within width of a point of the curve (sampled at t = 0, 1/4, 1/2, 3/4, 1).
C8_QuadContainsInflatedCurve ==
    \A i \in 1..Len(path.curves) : \A width \in Widths :
        ContainsInflated(path.curves[i], width)

\* C9: consecutive committed curves are chained: the end of each is the start
\* of the next, after any interleaving of stroke, undo and clear.
C9_ChainedContinuity ==
    \A i \in 1..(Len(path.curves) - 1) : path.curves[i].c = path.curves[i + 1].a

C9_Witness ==
    /\ ~pure
    /\ Len(path.curves) = 2
    /\ Len(clicks) >= 2

\* C10: the path is always in one of the phases EMPTY, HAVE_START,
\* HAVE_CONTROL: control is never pending without last, and curves are
\* committed only while last is set.
C10_PhaseWellFormed ==
    /\ ~(path.last = None /\ path.control # None)
    /\ (path.curves # <<>> => path.last # None)
    /\ Len(path.last) <= 1
    /\ Len(path.control) <= 1

C10_Witness ==
    /\ ~pure
    /\ path.last # None
    /\ path.control = None
    /\ Len(path.curves) = 1

====
